---- MODULE Spec2Model ----
(***************************************************************************)
(* Model of IBKR_stream_save.py: connect to the gateway, open one CSV file *)
(* per ticker and request a real-time bar stream for it, append one row    *)
(* per delivered bar, close everything from the signal handler.            *)
(*                                                                         *)
(* The process is single-threaded.  A Python-level signal handler runs on  *)
(* the main thread between two steps of whatever code is running, so the   *)
(* model keeps the position of main (pc), of the bar callback in flight    *)
(* (cb) and a stack of shutdown invocations (sd); while sd is non-empty    *)
(* only its top frame runs.                                                *)
(*                                                                         *)
(* A file object is a buffer in process memory in front of the persisted   *)
(* contents (disk).  File contents are counted in rows.  The persisted     *)
(* contents survive the process; buffers do not.  The program closes files *)
(* only in shutdown(); whether the interpreter flushes a file object that  *)
(* is still open when the process ends normally is left open.              *)
(***************************************************************************)
EXTENDS Integers, Sequences, FiniteSets, TLC

\* Bounds of the model: the length of TICKERS, and the number of events of the
\* environment (a bar, a signal, a failed call, a kill, a restart) over all runs.
NumTickers == 2
MaxEvents == 4

AllTickers == <<"SPY", "QQQ", "IWM", "AEM", "AEP">>

TICKERS == SubSeq(AllTickers, 1, NumTickers)

Symbols == {TICKERS[i] : i \in 1..Len(TICKERS)}

Header == <<"timestamp", "open", "high", "low", "close", "volume">>

Digits == <<"0", "1", "2", "3", "4", "5", "6", "7", "8", "9">>

\* str() of a number, as csv.writer applies it to every cell.
RECURSIVE Str(_)
Str(n) == IF n < 10 THEN Digits[n + 1] ELSE Str(n \div 10) \o Digits[(n % 10) + 1]

\* The bar the gateway sends at time t (values are data, chosen distinct per field).
Bar(t) == [time |-> t, open_ |-> 10 + t, high |-> 20 + t, low |-> t,
           close |-> 15 + t, volume |-> 100 * t]

VARIABLES
    run,        \* number of the current run of the program
    pc,         \* position of main (kept when the process ends)
    exitBy,     \* "none" while the process lives, else how it ended
    exitCode,   \* process exit status (-1 while the process lives)
    ib,         \* global ib: "None" or "IB"
    connected,  \* the session is connected
    dirExists,  \* OUTPUT_DIR exists
    idx,        \* setup_streaming: index of the current symbol
    f,          \* setup_streaming: local f (file id, 0 = unbound)
    bars,       \* setup_streaming: local bars (handle, 0 = unbound)
    files,      \* file objects created by this run
    bars_map,   \* global bars_map, in insertion order
    subs,       \* subs[h]: the bar list of subscription handle h
    registered, \* handles whose updateEvent has on_bar attached
    cb,         \* the on_bar invocation in flight (kept when the process ends)
    sd,         \* stack of shutdown invocations, top last
    disk,       \* disk[s]: persisted rows of <s>.csv
    nbars,      \* bars delivered so far, over all runs
    events,     \* events of the environment so far, over all runs
    calls,      \* history: calls made by this run; the symbols whose loop body
                \* was entered (tried) and whose steps all returned (ok); the
                \* number of bars delivered before the callbacks were attached
    hist        \* history per file object of this run

vars == <<run, pc, exitBy, exitCode, ib, connected, dirExists, idx, f, bars, files,
          bars_map, subs, registered, cb, sd, disk, nbars, events, calls, hist>>

Alive == exitBy = "none"

IdleCb == [pc |-> "idle", bars |-> 0, hasNewBar |-> FALSE, ctx |-> 0,
           bar |-> Bar(0), latest |-> 0]

NoCalls == [connect |-> 0, makedirs |-> 0, open |-> 0, req |-> 0,
            register |-> 0, run |-> 0, disconnect |-> 0, failed |-> "none",
            tried |-> <<>>, ok |-> <<>>, early |-> 0]

\* The state when main has installed the signal handlers; spent is the number of
\* events of the environment counted as used up.
Start(spent) ==
    /\ run = 1
    /\ pc = "IB"
    /\ exitBy = "none"
    /\ exitCode = -1
    /\ ib = "None"
    /\ connected = FALSE
    /\ dirExists = FALSE
    /\ idx = 1
    /\ f = 0
    /\ bars = 0
    /\ files = <<>>
    /\ bars_map = <<>>
    /\ subs = <<>>
    /\ registered = {}
    /\ cb = IdleCb
    /\ sd = <<>>
    /\ disk = [s \in Symbols |-> <<>>]
    /\ nbars = 0
    /\ events = spent
    /\ calls = NoCalls
    /\ hist = <<>>

Init == Start(0)

\* Main runs when the process lives, no shutdown is running and no callback is in flight.
MainRuns == Alive /\ sd = <<>> /\ cb.pc = "idle"

\* A call into the environment succeeds (ok) or fails; failures are counted.
Outcome(ok) ==
    /\ ~ok => events < MaxEvents
    /\ events' = IF ok THEN events ELSE events + 1

----------------------------------------------------------------------------
(* Process exit.                                                           *)

OpenFiles == {i \in 1..Len(files) : ~files[i].closed}

\* The persisted rows of every file after the file objects in S were flushed.
Flushed(S) ==
    [s \in Symbols |->
        IF \E i \in S : files[i].path = s
        THEN disk[s] \o files[CHOOSE i \in S : files[i].path = s].buf
        ELSE disk[s]]

\* The process ends: buffers vanish; the file objects in S were flushed first.
\* pc and cb stay where the process was stopped.  (The caller says what becomes
\* of events.)
ExitProcess(code, by, S) ==
    /\ exitBy' = by
    /\ exitCode' = code
    /\ disk' = Flushed(S)
    /\ files' = [i \in 1..Len(files) |-> [files[i] EXCEPT !.buf = <<>>]]
    /\ sd' = <<>>
    /\ UNCHANGED <<run, pc, ib, connected, dirExists, idx, f, bars, bars_map, subs,
                   registered, cb, nbars, calls, hist>>

----------------------------------------------------------------------------
(* main: connect, output directory.                                        *)

\* ib = IB()
NewIB ==
    /\ MainRuns /\ pc = "IB"
    /\ ib' = "IB"
    /\ pc' = "connect"
    /\ UNCHANGED <<run, exitBy, exitCode, connected, dirExists, idx, f, bars, files,
                   bars_map, subs, registered, cb, sd, disk, nbars, events, calls, hist>>

\* Mutation: main goes on after a failed step.
main_never_aborts(ok) == FALSE

\* if not connect_to_ib(): sys.exit(1)      if not setup_output_directory(): sys.exit(1)
main_aborts(ok) == ~ok

\* ib.connect(...) returns or raises; connect_to_ib returns True or False.
Connect ==
    /\ MainRuns /\ pc = "connect"
    /\ \E ok \in BOOLEAN :
        /\ Outcome(ok)
        /\ connected' = ok
        /\ pc' = IF main_aborts(ok) THEN "connect_failed" ELSE "makedirs"
        /\ calls' = [calls EXCEPT !.connect = @ + 1,
                                  !.failed = IF ok THEN @ ELSE "connect"]
    /\ UNCHANGED <<run, exitBy, exitCode, ib, dirExists, idx, f, bars, files, bars_map,
                   subs, registered, cb, sd, disk, nbars, hist>>

\* os.makedirs(OUTPUT_DIR, exist_ok=True); it can only fail to create.
MakeDirs ==
    /\ MainRuns /\ pc = "makedirs"
    /\ \E ok \in BOOLEAN :
        /\ Outcome(ok)
        /\ dirExists => ok
        /\ dirExists' = (dirExists \/ ok)
        /\ pc' = IF main_aborts(ok) THEN "makedirs_failed"
                 ELSE IF Len(TICKERS) = 0 THEN "check" ELSE "open"
        /\ calls' = [calls EXCEPT !.makedirs = @ + 1,
                                  !.failed = IF ok THEN @ ELSE "makedirs"]
    /\ idx' = 1
    /\ UNCHANGED <<run, exitBy, exitCode, ib, connected, f, bars, files, bars_map, subs,
                   registered, cb, sd, disk, nbars, hist>>

\* sys.exit(1) in main.
SysExit1 ==
    /\ MainRuns /\ pc \in {"connect_failed", "makedirs_failed", "no_subs"}
    /\ events' = events
    /\ \E S \in SUBSET OpenFiles : ExitProcess(1, "main", S)

----------------------------------------------------------------------------
(* setup_streaming: one pass of the loop body per symbol.                  *)

\* Mutation: the file is opened with mode 'w'.
open_truncate(content) == <<>>

\* open(csv_path, 'a'): the file is created if missing, its contents are kept.
open_append(content) == content

\* Mutation: the header row is written at every open.
header_always(pos) == TRUE

\* if f.tell() == 0: the position of a file opened for appending is its size.
needs_header(pos) == pos = 0

\* bars_map[key] = value
dict_set(m, key, value) ==
    IF \E i \in 1..Len(m) : m[i].bars = key
    THEN [i \in 1..Len(m) |-> IF m[i].bars = key THEN value ELSE m[i]]
    ELSE Append(m, value)

\* Mutation: the loop of setup_streaming ends after its first pass.
setup_stops ==
    /\ idx' = idx + 1
    /\ pc' = "check"

\* for symbol in TICKERS: the next pass of the loop, or the return to main.
NextSymbol ==
    /\ idx' = idx + 1
    /\ pc' = IF idx + 1 > Len(TICKERS) THEN "check" ELSE "open"

\* Stock(...); f = open(...); writer = csv.writer(f); header row if the file is empty.
\* open() raising is caught by the except clause of the loop body.
OpenCsv ==
    /\ MainRuns /\ pc = "open"
    /\ calls' = [calls EXCEPT !.open = @ + 1, !.tried = Append(@, TICKERS[idx])]
    /\ \/ LET s == TICKERS[idx]
              content == open_append(disk[s])
              fresh == [path |-> s, closed |-> FALSE, closes |-> 0,
                        buf |-> IF needs_header(Len(content)) THEN <<Header>> ELSE <<>>]
          IN /\ Outcome(TRUE)
             /\ disk' = [disk EXCEPT ![s] = content]
             /\ files' = Append(files, fresh)
             /\ hist' = Append(hist, [base |-> Len(content), written |-> <<>>,
                                      acked |-> <<>>])
             /\ f' = Len(files) + 1
             /\ pc' = "req"
             /\ idx' = idx
       \/ /\ Outcome(FALSE)
          /\ NextSymbol
          /\ UNCHANGED <<disk, files, hist, f>>
    /\ UNCHANGED <<run, exitBy, exitCode, ib, connected, dirExists, bars, bars_map, subs,
                   registered, cb, sd, nbars>>

\* bars = ib.reqRealTimeBars(contract, 5, 'TRADES', False): a new handle with an
\* empty bar list, or an exception that the except clause of the loop body catches
\* (f stays open and is in no mapping entry).
ReqRealTimeBars ==
    /\ MainRuns /\ pc = "req"
    /\ \/ /\ Outcome(TRUE)
          /\ calls' = [calls EXCEPT !.req = @ + 1, !.ok = Append(@, TICKERS[idx])]
          /\ subs' = Append(subs, <<>>)
          /\ bars' = Len(subs) + 1
          /\ pc' = "store"
          /\ idx' = idx
       \/ /\ Outcome(FALSE)
          /\ calls' = [calls EXCEPT !.req = @ + 1]
          /\ NextSymbol
          /\ UNCHANGED <<subs, bars>>
    /\ UNCHANGED <<run, exitBy, exitCode, ib, connected, dirExists, f, files, bars_map,
                   registered, cb, sd, disk, nbars, hist>>

\* Mutation: on_bar is attached to the handle as soon as its entry is stored.
StoreContextAttached ==
    /\ MainRuns /\ pc = "store"
    /\ bars_map' = dict_set(bars_map, bars,
                            [bars |-> bars, symbol |-> TICKERS[idx], file |-> f])
    /\ registered' = registered \cup {bars}
    /\ NextSymbol
    /\ UNCHANGED <<run, exitBy, exitCode, ib, connected, dirExists, f, bars, files, subs,
                   cb, sd, disk, nbars, events, calls, hist>>

\* bars_map[bars] = {'symbol': symbol, 'writer': writer, 'file': f}
\* (the writer is the file it wraps).
StoreContext ==
    /\ MainRuns /\ pc = "store"
    /\ bars_map' = dict_set(bars_map, bars,
                            [bars |-> bars, symbol |-> TICKERS[idx], file |-> f])
    /\ NextSymbol
    /\ UNCHANGED <<run, exitBy, exitCode, ib, connected, dirExists, f, bars, files, subs,
                   registered, cb, sd, disk, nbars, events, calls, hist>>

----------------------------------------------------------------------------
(* main after setup_streaming.                                             *)

\* Mutation: main does not look at bars_map.
main_assumes_subs(m) == TRUE

\* if not bars_map: ... sys.exit(1)
main_has_subs(m) == m # <<>>

CheckSubs ==
    /\ MainRuns /\ pc = "check"
    /\ pc' = IF main_has_subs(bars_map) THEN "register" ELSE "no_subs"
    /\ UNCHANGED <<run, exitBy, exitCode, ib, connected, dirExists, idx, f, bars, files,
                   bars_map, subs, registered, cb, sd, disk, nbars, events, calls, hist>>

\* register_callbacks(): for bars in bars_map: bars.updateEvent += on_bar;
\* then main enters ib.run().
RegisterCallbacks ==
    /\ MainRuns /\ pc = "register"
    /\ registered' = registered \cup {bars_map[i].bars : i \in 1..Len(bars_map)}
    /\ pc' = "run"
    /\ calls' = [calls EXCEPT !.register = @ + 1, !.run = @ + 1, !.early = nbars]
    /\ UNCHANGED <<run, exitBy, exitCode, ib, connected, dirExists, idx, f, bars, files,
                   bars_map, subs, cb, sd, disk, nbars, events, hist>>

----------------------------------------------------------------------------
(* The event loop (ib.run()) and on_bar.                                   *)

NewFrame == [pc |-> "for", i |-> 1]

\* Mutation: on_bar ignores hasNewBar.
on_bar_never_skips(hasNewBar) == FALSE

\* if not hasNewBar: return
on_bar_skips(hasNewBar) == ~hasNewBar

\* Mutation: every handle resolves to the first entry.
dict_get_first(m, key) == IF m = <<>> THEN 0 ELSE 1

\* ctx = bars_map[bars]: the index of the entry, 0 for a KeyError.
dict_get(m, key) ==
    IF \E i \in 1..Len(m) : m[i].bars = key
    THEN CHOOSE i \in 1..Len(m) : m[i].bars = key
    ELSE 0

\* Mutation: bars[0].
first_bar(barlist) == barlist[1]

\* bar = bars[-1]
last_bar(barlist) == barlist[Len(barlist)]

\* writer.writerow([timestamp, bar.open_, bar.high, bar.low, bar.close, bar.volume])
Row(bar) == <<Str(bar.time), Str(bar.open_), Str(bar.high), Str(bar.low),
              Str(bar.close), Str(bar.volume)>>

\* Mutation: on_bar has no try block.
on_bar_catches_nothing(exc) == FALSE

\* Mutation: on_bar has a bare except clause.
on_bar_catches_all(exc) == TRUE

\* except Exception as e: catches every Exception, but not SystemExit.
on_bar_catches(exc) == exc = "Exception"

\* The program is inside a call of the library that may process incoming data:
\* ib.run(), or the reqRealTimeBars of a later symbol.
InLibrary == pc \in {"req", "run"}

\* The library appends a bar to the list of handle h (hasNewBar) or only reports an
\* update of it, and emits updateEvent: on_bar(bars, hasNewBar) is entered if attached.
Deliver(h, hasNewBar) ==
    /\ MainRuns /\ InLibrary
    /\ hasNewBar => events < MaxEvents
    /\ events' = IF hasNewBar THEN events + 1 ELSE events
    /\ nbars' = IF hasNewBar THEN nbars + 1 ELSE nbars
    /\ subs' = IF hasNewBar THEN [subs EXCEPT ![h] = Append(@, Bar(nbars + 1))] ELSE subs
    /\ cb' = IF h \in registered
             THEN [pc |-> "entry", bars |-> h, hasNewBar |-> hasNewBar, ctx |-> 0,
                   bar |-> Bar(0), latest |-> IF hasNewBar THEN nbars + 1 ELSE 0]
             ELSE cb
    /\ UNCHANGED <<run, pc, exitBy, exitCode, ib, connected, dirExists, idx, f, bars,
                   files, bars_map, registered, sd, disk, calls, hist>>

\* An exception of kind exc leaves the try block of on_bar: the except clause
\* catches it and on_bar returns, or it leaves on_bar and ib.run(), and main's
\* "except Exception" calls shutdown(signal.SIGTERM, None).
OnBarRaise(exc) ==
    /\ cb' = IdleCb
    /\ sd' = IF on_bar_catches(exc) THEN sd ELSE Append(sd, NewFrame)

\* The history of file object i with the row of the invocation in flight.
Wrote(i) == [hist EXCEPT ![i].written = Append(@, cb.latest)]

Acked(i) == [hist EXCEPT ![i].acked = Append(@, cb.latest)]

\* on_bar up to bar = bars[-1].
OnBarEntry ==
    /\ Alive /\ sd = <<>> /\ cb.pc = "entry"
    /\ IF on_bar_skips(cb.hasNewBar)
       THEN cb' = IdleCb /\ sd' = sd
       ELSE LET e == dict_get(bars_map, cb.bars)
            IN IF e = 0 \/ subs[cb.bars] = <<>>
               THEN OnBarRaise("Exception")
               ELSE /\ cb' = [cb EXCEPT !.pc = "write", !.ctx = bars_map[e].file,
                                        !.bar = last_bar(subs[cb.bars])]
                    /\ sd' = sd
    /\ UNCHANGED <<run, pc, exitBy, exitCode, ib, connected, dirExists, idx, f, bars,
                   files, bars_map, subs, registered, disk, nbars, events, calls, hist>>

\* ctx['writer'].writerow([...]): the row goes to the buffer of the file, or the
\* call raises (always on a closed file).
OnBarWrite ==
    /\ Alive /\ sd = <<>> /\ cb.pc = "write"
    /\ \/ /\ ~files[cb.ctx].closed
          /\ Outcome(TRUE)
          /\ files' = [files EXCEPT ![cb.ctx].buf = Append(@, Row(cb.bar))]
          /\ cb' = [cb EXCEPT !.pc = "flush"]
          /\ hist' = Wrote(cb.ctx)
          /\ sd' = sd
       \/ /\ IF files[cb.ctx].closed THEN events' = events ELSE Outcome(FALSE)
          /\ OnBarRaise("Exception")
          /\ UNCHANGED <<files, hist>>
    /\ UNCHANGED <<run, pc, exitBy, exitCode, ib, connected, dirExists, idx, f, bars,
                   bars_map, subs, registered, disk, nbars, calls>>

\* Mutation: on_bar does not flush.
flush_skipped(file, content) == [buf |-> file.buf, content |-> content]

\* file.flush(): the buffer reaches the persisted contents.
file_flush(file, content) == [buf |-> <<>>, content |-> content \o file.buf]

\* ctx['file'].flush(), then on_bar returns; or flush raises and the row stays buffered.
OnBarFlush ==
    /\ Alive /\ sd = <<>> /\ cb.pc = "flush"
    /\ \/ LET file == files[cb.ctx]
              r == file_flush(file, disk[file.path])
          IN /\ ~file.closed
             /\ Outcome(TRUE)
             /\ files' = [files EXCEPT ![cb.ctx].buf = r.buf]
             /\ disk' = [disk EXCEPT ![file.path] = r.content]
             /\ cb' = IdleCb
             /\ hist' = Acked(cb.ctx)
             /\ sd' = sd
       \/ /\ IF files[cb.ctx].closed THEN events' = events ELSE Outcome(FALSE)
          /\ OnBarRaise("Exception")
          /\ UNCHANGED <<files, disk, hist>>
    /\ UNCHANGED <<run, pc, exitBy, exitCode, ib, connected, dirExists, idx, f, bars,
                   bars_map, subs, registered, nbars, calls>>

\* Mutation: ib.run() is called outside a try block.
main_catches_nothing(exc) == FALSE

\* try: ib.run() except KeyboardInterrupt: ... except Exception as e: ...
main_catches(exc) == exc \in {"KeyboardInterrupt", "Exception"}

\* ib.run() raises an Exception: main calls shutdown(signal.SIGTERM, None); an
\* exception that main did not catch would end the process with status 1.
LoopError ==
    /\ MainRuns /\ pc = "run"
    /\ Outcome(FALSE)
    /\ IF main_catches("Exception")
       THEN /\ sd' = Append(sd, NewFrame)
            /\ UNCHANGED <<run, pc, exitBy, exitCode, ib, connected, dirExists, idx, f,
                           bars, files, bars_map, subs, registered, cb, disk, nbars, calls,
                           hist>>
       ELSE \E S \in SUBSET OpenFiles : ExitProcess(1, "main", S)

----------------------------------------------------------------------------
(* shutdown(signal_num, frame).                                            *)

Top == sd[Len(sd)]

SetTop(frame) == [sd EXCEPT ![Len(sd)] = frame]

\* Mutation: shutdown disconnects without looking at ib.
ib_assumed(x) == TRUE

\* if ib:
ib_truthy(x) == x # "None"

\* Mutation: shutdown has no loop over bars_map.values().
shutdown_no_close(i, m, x) == IF ib_truthy(x) THEN "disconnect" ELSE "exit"

\* Where shutdown goes from the head of its loop: "for ctx in bars_map.values()"
\* has a next entry, or the loop is over and "if ib:" decides.
shutdown_next(i, m, x) ==
    IF i <= Len(m) THEN "close"
    ELSE IF ib_truthy(x) THEN "disconnect" ELSE "exit"

\* The bare "except: pass" clauses around close() and disconnect() catch whatever is
\* raised inside their try blocks, SystemExit included.
shutdown_swallows(at) == at \in {"close", "disconnect"}

\* Where shutdown continues after one of its except clauses caught an exception.
AfterExcept(frame) ==
    IF frame.pc = "close" THEN [pc |-> "for", i |-> frame.i + 1]
    ELSE [frame EXCEPT !.pc = "exit"]

\* file.close(): flushes the buffer and closes; when the flush raises the file is
\* closed all the same and the buffer is gone.  Closing a closed file does nothing.
file_close(file, content, ok) ==
    IF file.closed THEN [file |-> file, content |-> content]
    ELSE [file |-> [file EXCEPT !.closed = TRUE, !.buf = <<>>],
          content |-> IF ok THEN content \o file.buf ELSE content]

\* SIGINT or SIGTERM is delivered: the handler starts on top of whatever runs.
\* (main installs shutdown for both signals before anything else, so SIGINT never
\* becomes a KeyboardInterrupt.)
Signal ==
    /\ Alive
    /\ events < MaxEvents
    /\ events' = events + 1
    /\ sd' = Append(sd, NewFrame)
    /\ UNCHANGED <<run, pc, exitBy, exitCode, ib, connected, dirExists, idx, f, bars,
                   files, bars_map, subs, registered, cb, disk, nbars, calls, hist>>

\* The head of the loop over bars_map.values(), and "if ib:" after it.
ShutdownFor ==
    /\ Alive /\ sd # <<>> /\ Top.pc = "for"
    /\ sd' = SetTop([Top EXCEPT !.pc = shutdown_next(Top.i, bars_map, ib)])
    /\ UNCHANGED <<run, pc, exitBy, exitCode, ib, connected, dirExists, idx, f, bars,
                   files, bars_map, subs, registered, cb, disk, nbars, events, calls, hist>>

\* try: ctx['file'].close() except: pass
ShutdownClose ==
    /\ Alive /\ sd # <<>> /\ Top.pc = "close"
    /\ \E ok \in BOOLEAN :
        LET i == bars_map[Top.i].file
            r == file_close(files[i], disk[files[i].path], ok)
        IN /\ files[i].closed => ok
           /\ Outcome(ok)
           /\ files' = [files EXCEPT ![i] = [r.file EXCEPT !.closes = @ + 1]]
           /\ disk' = [disk EXCEPT ![files[i].path] = r.content]
    /\ sd' = SetTop(AfterExcept(Top))
    /\ UNCHANGED <<run, pc, exitBy, exitCode, ib, connected, dirExists, idx, f, bars,
                   bars_map, subs, registered, cb, nbars, calls, hist>>

\* try: ib.disconnect() except: pass
ShutdownDisconnect ==
    /\ Alive /\ sd # <<>> /\ Top.pc = "disconnect"
    /\ \E ok \in BOOLEAN :
        /\ Outcome(ok)
        /\ connected' = (connected /\ ~ok)
    /\ calls' = [calls EXCEPT !.disconnect = @ + 1]
    /\ sd' = SetTop(AfterExcept(Top))
    /\ UNCHANGED <<run, pc, exitBy, exitCode, ib, dirExists, idx, f, bars, files, bars_map,
                   subs, registered, cb, disk, nbars, hist>>

\* SystemExit leaves a shutdown invocation: the frames below it, top last, after the
\* exception has travelled up to the first except clause that catches it.
RECURSIVE Unwind(_)
Unwind(stack) ==
    IF stack = <<>> THEN <<>>
    ELSE LET below == stack[Len(stack)]
         IN IF shutdown_swallows(below.pc)
            THEN [stack EXCEPT ![Len(stack)] = AfterExcept(below)]
            ELSE Unwind(SubSeq(stack, 1, Len(stack) - 1))

\* The interrupted on_bar invocation is inside its try block.
OnBarInTry == cb.pc \in {"write", "flush"}

\* sys.exit(0): SystemExit is raised in the interrupted code.  Below the shutdown
\* frames it passes the try block of an interrupted on_bar, whose except clause
\* would end the invocation there if it caught it; the except clauses of main,
\* setup_streaming and connect_to_ib are all "except Exception" (main's first one
\* is "except KeyboardInterrupt") and let it pass, so the process ends with status 0.
ShutdownExit ==
    /\ Alive /\ sd # <<>> /\ Top.pc = "exit"
    /\ LET rest == Unwind(SubSeq(sd, 1, Len(sd) - 1))
       IN IF rest = <<>>
          THEN IF OnBarInTry /\ on_bar_catches("SystemExit")
               THEN /\ cb' = IdleCb
                    /\ sd' = <<>>
                    /\ UNCHANGED <<run, pc, exitBy, exitCode, ib, connected, dirExists,
                                   idx, f, bars, files, bars_map, subs, registered,
                                   disk, nbars, events, calls, hist>>
               ELSE /\ events' = events
                    /\ \E S \in SUBSET OpenFiles : ExitProcess(0, "shutdown", S)
          ELSE /\ sd' = rest
               /\ UNCHANGED <<run, pc, exitBy, exitCode, ib, connected, dirExists, idx,
                              f, bars, files, bars_map, subs, registered, cb, disk,
                              nbars, events, calls, hist>>

----------------------------------------------------------------------------
(* The environment: the process is killed; the program is started again.   *)

\* SIGKILL: no handler runs, nothing is flushed.
Kill ==
    /\ Alive
    /\ events < MaxEvents
    /\ events' = events + 1
    /\ ExitProcess(137, "killed", {})

\* The program is run again over the same output directory.
Restart ==
    /\ ~Alive
    /\ events < MaxEvents
    /\ events' = events + 1
    /\ run' = run + 1
    /\ pc' = "IB"
    /\ exitBy' = "none"
    /\ exitCode' = -1
    /\ ib' = "None"
    /\ connected' = FALSE
    /\ idx' = 1
    /\ f' = 0
    /\ bars' = 0
    /\ files' = <<>>
    /\ bars_map' = <<>>
    /\ subs' = <<>>
    /\ registered' = {}
    /\ cb' = IdleCb
    /\ sd' = <<>>
    /\ calls' = NoCalls
    /\ hist' = <<>>
    /\ UNCHANGED <<dirExists, disk, nbars>>

Next ==
    \/ NewIB
    \/ Connect
    \/ MakeDirs
    \/ SysExit1
    \/ OpenCsv
    \/ ReqRealTimeBars
    \/ StoreContext
    \/ CheckSubs
    \/ RegisterCallbacks
    \/ \E h \in 1..Len(subs), hasNewBar \in BOOLEAN : Deliver(h, hasNewBar)
    \/ OnBarEntry
    \/ OnBarWrite
    \/ OnBarFlush
    \/ LoopError
    \/ Signal
    \/ ShutdownFor
    \/ ShutdownClose
    \/ ShutdownDisconnect
    \/ ShutdownExit
    \/ Kill
    \/ Restart

Spec == Init /\ [][Next]_vars

\* A step of a shutdown invocation.
ShutdownStep == ShutdownFor \/ ShutdownClose \/ ShutdownDisconnect \/ ShutdownExit

\* The program where nothing kills the process.
NextUnkilled ==
    \/ NewIB
    \/ Connect
    \/ MakeDirs
    \/ SysExit1
    \/ OpenCsv
    \/ ReqRealTimeBars
    \/ StoreContext
    \/ CheckSubs
    \/ RegisterCallbacks
    \/ \E h \in 1..Len(subs), hasNewBar \in BOOLEAN : Deliver(h, hasNewBar)
    \/ OnBarEntry
    \/ OnBarWrite
    \/ OnBarFlush
    \/ LoopError
    \/ Signal
    \/ ShutdownStep
    \/ Restart

\* Liveness is checked over the runs with one event of the environment fewer.
LiveInit == Start(1)

\* A running shutdown invocation goes on: the handler is code on the main thread
\* and close() and disconnect() return or raise.
LiveSpec == LiveInit /\ [][NextUnkilled]_vars /\ WF_vars(ShutdownStep)

----------------------------------------------------------------------------
(* Properties.                                                             *)

Range(seq) == {seq[i] : i \in 1..Len(seq)}

IsPrefix(a, b) == Len(a) <= Len(b) /\ SubSeq(b, 1, Len(a)) = a

\* The record of a bar as the output format has it:
\* timestamp, open, high, low, close, volume.
CsvRow(b) == <<Str(b.time), Str(b.open_), Str(b.high), Str(b.low), Str(b.close),
               Str(b.volume)>>

\* What file object i holds: the persisted rows and, behind them, its buffer.
Content(i) == disk[files[i].path] \o files[i].buf

\* The rows file object i has added to what was there when it was opened,
\* without the header row it wrote if the file was empty then.
Added(i) ==
    LET new == SubSeq(Content(i), hist[i].base + 1, Len(Content(i)))
    IN IF hist[i].base = 0 /\ new # <<>> /\ new[1] = Header THEN Tail(new) ELSE new

Mapped == {bars_map[e].file : e \in 1..Len(bars_map)}

SetupDone == pc \in {"check", "no_subs", "register", "run"}

\* shutdown() has run to its end and ended the process.
ShutdownDone == exitBy = "shutdown"

\* Every mapped resource is closed and, if a session object exists, a disconnect
\* was attempted.
MappedClosedAndDisconnected ==
    /\ \A i \in Mapped : files[i].closed
    /\ ib_truthy(ib) => calls.disconnect > 0

\* C1: after shutdown has run, every output resource opened during setup is closed
\* and the disconnect of the session was attempted, whatever close() raised.
C1_ShutdownClosesEveryOpened ==
    ShutdownDone =>
        /\ \A i \in 1..Len(files) : files[i].closed
        /\ ib_truthy(ib) => calls.disconnect > 0

\* The mapping is one-to-one: no two entries share a handle, a symbol or a file,
\* every entry pairs a symbol with the file opened for it, and every subscription
\* handle has its entry.
MappingBijective ==
    /\ \A i, j \in 1..Len(bars_map) :
          i # j => /\ bars_map[i].bars # bars_map[j].bars
                   /\ bars_map[i].symbol # bars_map[j].symbol
                   /\ bars_map[i].file # bars_map[j].file
    /\ \A i \in 1..Len(bars_map) :
          /\ bars_map[i].bars \in 1..Len(subs)
          /\ bars_map[i].file \in 1..Len(files)
          /\ files[bars_map[i].file].path = bars_map[i].symbol
    /\ \A h \in 1..Len(subs) : \E i \in 1..Len(bars_map) : bars_map[i].bars = h

\* C2: once setup_streaming has run through the list, the mapping is a bijection
\* onto the subscribed symbols, each with one resource, and no symbol whose setup
\* failed has an open resource.
C2_SetupBijection ==
    (Alive /\ SetupDone) =>
        /\ MappingBijective
        /\ \A i \in OpenFiles : i \in Mapped

\* The bars of handle h that on_bar was invoked for: those delivered after the
\* callbacks were attached.
Invoked(h) == SelectSeq(subs[h], LAMBDA b : b.time > calls.early)

\* C3 as claimed: with no invocation in flight, the resource of every subscription
\* holds one record per invocation with hasNewBar, in order.
C3_OneRowPerInvocation ==
    (Alive /\ sd = <<>> /\ cb.pc = "idle" /\ pc = "run") =>
        \A e \in 1..Len(bars_map) :
            ~files[bars_map[e].file].closed =>
                Added(bars_map[e].file)
                    = [k \in 1..Len(Invoked(bars_map[e].bars)) |->
                          CsvRow(Invoked(bars_map[e].bars)[k])]

\* C3 as amended: the resource of every subscription holds one record per
\* invocation whose write did not fail, in the order of the invocations, each the
\* record of the bar that was the most recent one of the subscription then.
C3_OneRowPerWrittenBar ==
    Alive =>
        \A e \in 1..Len(bars_map) :
            LET i == bars_map[e].file
            IN ~files[i].closed =>
                  /\ Added(i) = [k \in 1..Len(hist[i].written) |->
                                    CsvRow(Bar(hist[i].written[k]))]
                  /\ \A k \in 1..Len(hist[i].written) :
                        Bar(hist[i].written[k]) \in Range(subs[bars_map[e].bars])

C3_Witness ==
    /\ Alive
    /\ \E i \in Mapped : ~files[i].closed /\ Len(hist[i].written) >= 2

\* C4: an invocation with hasNewBar = false returns at once: it never gets to the
\* lookup or the write, and its step changes no file, no persisted row and no
\* mapping entry.
C4_NoNewBarNoOp ==
    /\ [](cb.pc # "idle" /\ ~cb.hasNewBar => cb.pc = "entry")
    /\ [][(Alive /\ Alive' /\ sd = <<>> /\ sd' = <<>> /\ cb.pc = "entry" /\ ~cb.hasNewBar)
            => (cb' = IdleCb /\ files' = files /\ disk' = disk /\ bars_map' = bars_map
                /\ registered' = registered /\ hist' = hist)]_vars

C4_Witness ==
    /\ Alive /\ cb.pc = "entry" /\ ~cb.hasNewBar
    /\ \E i \in Mapped : hist[i].acked # <<>>

\* A step of on_bar that ends the invocation with a failed call.
HandlerFails ==
    /\ Alive /\ Alive' /\ sd = <<>>
    /\ cb.pc \in {"write", "flush"} /\ cb'.pc = "idle"
    /\ events' = events + 1

\* C5: a failed write for one symbol ends inside on_bar: no shutdown starts, main
\* stays in the event loop, and the mapping, the attached callbacks and the files
\* of every other symbol are as they were; and while main is in the event loop every
\* subscription keeps its callback and its open file, so a later bar of another
\* symbol is written.
C5_HandlerErrorContained ==
    /\ [][HandlerFails =>
            /\ sd' = <<>>
            /\ pc' = "run"
            /\ bars_map' = bars_map /\ registered' = registered /\ subs' = subs
            /\ \A i \in 1..Len(files) : i # cb.ctx => files'[i] = files[i]
            /\ \A s \in Symbols : s # files[cb.ctx].path => disk'[s] = disk[s]]_vars
    /\ []((Alive /\ sd = <<>> /\ pc = "run") =>
            \A e \in 1..Len(bars_map) :
                bars_map[e].bars \in registered /\ ~files[bars_map[e].file].closed)

\* A bar of one subscription was dropped by a failed write and a later bar of
\* another subscription is in its file.
C5_Witness ==
    /\ Alive /\ pc = "run" /\ cb.pc = "idle"
    /\ \E a, b \in 1..Len(bars_map) :
          /\ a # b
          /\ \E x \in Range(subs[bars_map[a].bars]), t \in Range(hist[bars_map[b].file].acked) :
                /\ x.time > calls.early
                /\ x.time \notin Range(hist[bars_map[a].file].written)
                /\ t > x.time

\* The invocation for the bar of time t has returned.
HasReturned(t) == ~(cb.pc # "idle" /\ cb.latest = t)

\* C6 as claimed: the record that an invocation wrote is, once the invocation has
\* returned, among the persisted rows of its file, whenever the process is killed.
C6_WrittenRowsPersisted ==
    \A i \in 1..Len(hist) :
        \A t \in Range(hist[i].written) :
            HasReturned(t) => CsvRow(Bar(t)) \in Range(disk[files[i].path])

\* C6 as amended: the record of every invocation that has returned without an error
\* (its write and its flush went through) is among the persisted rows of its file,
\* also after the process was killed.
C6_ReturnedRowsPersisted ==
    \A i \in 1..Len(hist) :
        \A t \in Range(hist[i].acked) :
            HasReturned(t) /\ CsvRow(Bar(t)) \in Range(disk[files[i].path])

C6_Witness ==
    /\ exitBy = "killed"
    /\ \E i \in 1..Len(hist) : hist[i].acked # <<>>

C8_AppendOnly == [][\A s \in Symbols : IsPrefix(disk[s], disk'[s])]_vars

\* A later run has opened a file that had rows, written a bar to it, and was shut down.
C8_Witness ==
    /\ run >= 2 /\ ShutdownDone
    /\ \E i \in 1..Len(hist) : hist[i].base > 0 /\ hist[i].written # <<>>

\* C9: after a failed connection call main makes no second attempt, creates no
\* directory, opens no file and requests no subscription, and its exit is status 1.
C9_ConnectFailureAborts ==
    calls.failed = "connect" =>
        /\ pc = "connect_failed"
        /\ calls.connect = 1 /\ calls.makedirs = 0 /\ calls.open = 0 /\ calls.req = 0
        /\ files = <<>> /\ subs = <<>> /\ bars_map = <<>>
        /\ exitBy = "main" => exitCode = 1

C9_Witness == calls.failed = "connect" /\ exitBy = "main" /\ exitCode = 1

\* C10: main goes from the end of setup to the failure exit exactly when there is no
\* mapping entry, and then never registers callbacks or enters the event loop and
\* exits with status 1; with an entry it registers the callbacks and enters the loop.
C10_ZeroSubscriptionsFatal ==
    /\ [](/\ pc = "no_subs" =>
               /\ bars_map = <<>> /\ registered = {}
               /\ calls.register = 0 /\ calls.run = 0
               /\ exitBy = "main" => exitCode = 1
          /\ pc \in {"register", "run"} => bars_map # <<>>
          /\ pc = "run" => calls.run = 1)
    /\ [][(Alive /\ Alive' /\ pc # pc') =>
            /\ pc = "check" => pc' = IF bars_map = <<>> THEN "no_subs" ELSE "register"
            /\ pc = "register" => pc' = "run"
            /\ pc = "no_subs" => FALSE]_vars

C10_Witness == pc = "no_subs" /\ exitBy = "main" /\ exitCode = 1 /\ calls.open > 0


----------------------------------------------------------------------------
(* Setup failures, lifecycle, shutdown.                                    *)

\* The symbols of the mapping entries, in insertion order.
MapSymbols == [e \in 1..Len(bars_map) |-> bars_map[e].symbol]

\* A step of the loop body of setup_streaming in which a call failed.
SetupStepFails ==
    /\ Alive /\ sd = <<>> /\ pc \in {"open", "req"}
    /\ calls' # calls /\ events' = events + 1 /\ sd' = <<>> /\ Alive'

\* C11: a failed step of one symbol adds no mapping entry, ends nothing and moves
\* setup to the next symbol of the list; the symbols are tried in list order, all of
\* them once setup has returned, and the mapped symbols are then exactly those whose
\* open and subscription request both returned, in that order.
C11_SetupFailureNonFatal ==
    /\ [][SetupStepFails =>
            /\ bars_map' = bars_map /\ registered' = registered
            /\ idx' = idx + 1
            /\ pc' = IF idx < Len(TICKERS) THEN "open" ELSE "check"]_vars
    /\ [](/\ IsPrefix(calls.tried, TICKERS)
          /\ Range(calls.ok) \subseteq Range(calls.tried)
          /\ IsPrefix(MapSymbols, calls.ok)
          /\ SetupDone => (calls.tried = TICKERS /\ MapSymbols = calls.ok))

\* Setup of the first symbol failed and main streams the symbols after it.
C11_Witness ==
    /\ Alive /\ pc = "run"
    /\ MapSymbols # <<>> /\ TICKERS[1] \notin Range(MapSymbols)
    /\ calls.tried = TICKERS

\* The lifecycle state of the process, numbered along
\* UNCONNECTED (1), CONNECTED (2), STREAMING (3), SHUTTING_DOWN (4), TERMINATED (5):
\* terminated when the process has ended, shutting down while a shutdown invocation
\* runs, else where main is: before a connection, between the connection and
\* ib.run(), inside ib.run().
Lifecycle ==
    IF ~Alive THEN 5
    ELSE IF sd # <<>> THEN 4
    ELSE IF pc = "run" THEN 3
    ELSE IF pc \in {"IB", "connect", "connect_failed"} THEN 1
    ELSE 2

\* The same of the next state.
LifecycleNext ==
    IF exitBy' # "none" THEN 5
    ELSE IF sd' # <<>> THEN 4
    ELSE IF pc' = "run" THEN 3
    ELSE IF pc' \in {"IB", "connect", "connect_failed"} THEN 1
    ELSE 2

\* C12: within one process the lifecycle state never goes back and the session is
\* connected in CONNECTED and STREAMING; STREAMING is left only by a signal or an
\* error of the event loop, into SHUTTING_DOWN, and a process that was streaming
\* has terminated only through shutdown (unless it was killed).
C12_LifecycleForwardOnly ==
    /\ [][run' = run => LifecycleNext >= Lifecycle]_vars
    /\ [][(run' = run /\ Lifecycle = 3 /\ LifecycleNext # 3 /\ exitBy' # "killed") =>
            /\ LifecycleNext = 4
            /\ events' = events + 1 /\ cb' = cb /\ nbars' = nbars]_vars
    /\ [](/\ Lifecycle \in {2, 3} => connected
          /\ (Lifecycle = 5 /\ pc = "run" /\ exitBy # "killed") =>
                (exitBy = "shutdown" /\ exitCode = 0))

\* A process that streamed and wrote a bar has terminated through shutdown.
C12_Witness ==
    /\ ShutdownDone /\ pc = "run"
    /\ \E i \in Mapped : hist[i].acked # <<>>

\* C13: from any state in which a shutdown invocation runs (a signal was delivered,
\* or the event loop failed) the process comes to its end through shutdown with
\* status 0, whatever close() and disconnect() raise; a process that a signal
\* reached ends in no other way; and disconnect() is called only on a session object.
C13_SignalEndsWithZero ==
    /\ (Alive /\ sd # <<>>) ~> (exitBy = "shutdown" /\ exitCode = 0)
    /\ [][(Alive /\ sd # <<>> /\ exitBy' # "none") =>
            (exitBy' = "shutdown" /\ exitCode' = 0)]_vars
    /\ [](calls.disconnect > 0 => ib = "IB")

\* Shutdown has ended a streaming process with status 0 although disconnect() raised.
C13_Witness ==
    /\ ShutdownDone /\ exitCode = 0
    /\ Mapped # {} /\ calls.disconnect > 0 /\ connected

\* Shutdown has ended the process: every mapped resource is closed, the disconnect
\* of the session was attempted, the exit status is 0.
ShutdownEndsClean == ShutdownDone => (MappedClosedAndDisconnected /\ exitCode = 0)

\* C14: when shutdown has ended the process, also after a second signal started the
\* handler again inside the first invocation, every output resource of the run is
\* closed (a file object goes from open to closed once), the disconnect of the
\* session was attempted and the exit status is 0.
C14_EachResourceClosedOnce ==
    /\ ShutdownEndsClean
    /\ ShutdownDone => \A i \in 1..Len(files) : files[i].closed /\ files[i].closes >= 1

\* C15: while a shutdown invocation runs, the on_bar invocation it interrupted takes
\* no step and none is started, and main stays where it is, so no error of the
\* handler reaches the event loop; the process then ends through shutdown (or is
\* killed), and when shutdown has ended a process with an invocation in flight,
\* every mapped resource is closed, the disconnect was attempted, the status is 0.
C15_ShutdownDuringHandler ==
    /\ [][(Alive /\ sd # <<>> /\ run' = run) =>
            /\ cb' = cb /\ pc' = pc /\ hist' = hist
            /\ exitBy' \in {"none", "shutdown", "killed"}]_vars
    /\ []((ShutdownDone /\ cb.pc # "idle") =>
            (MappedClosedAndDisconnected /\ exitCode = 0))

\* Shutdown has ended the process between the write and the flush of an invocation;
\* closing the file has persisted the row.
C15_Witness ==
    /\ ShutdownDone /\ cb.pc = "flush"
    /\ CsvRow(cb.bar) \in Range(disk[files[cb.ctx].path])

\* The file object of the mapping entry of handle h (0 if h has no entry).
OwnerFile(h) ==
    IF \E e \in 1..Len(bars_map) : bars_map[e].bars = h
    THEN bars_map[CHOOSE e \in 1..Len(bars_map) : bars_map[e].bars = h].file
    ELSE 0

\* A step of the on_bar invocation in flight.
HandlerStep ==
    /\ Alive /\ Alive' /\ run' = run
    /\ cb.pc # "idle" /\ cb' # cb

\* C16: a step of on_bar for handle h changes no file object and no persisted file
\* but those of the entry of h, and only adds rows there; the mapping changes only
\* where setup_streaming stores an entry, never once setup has returned; and a file
\* object becomes closed only in the close step of shutdown.
C16_HandlerFrame ==
    /\ [][HandlerStep =>
            LET own == OwnerFile(cb.bars)
            IN /\ own # 0
               /\ \A i \in 1..Len(files) : i # own => files'[i] = files[i]
               /\ \A s \in Symbols : s # files[own].path => disk'[s] = disk[s]
               /\ files'[own].closed = files[own].closed
               /\ IsPrefix(Content(own), disk'[files[own].path] \o files'[own].buf)
               /\ bars_map' = bars_map /\ registered' = registered]_vars
    /\ [][(run' = run /\ bars_map' # bars_map) =>
            (pc = "store" /\ sd = <<>> /\ ~SetupDone)]_vars
    /\ [][run' = run =>
            \A i \in 1..Len(files) :
                (~files[i].closed /\ files'[i].closed) =>
                    (sd # <<>> /\ Top.pc = "close" /\ bars_map[Top.i].file = i)]_vars

\* The second subscription has a persisted bar and the file of the first has none.
C16_Witness ==
    /\ Alive /\ pc = "run" /\ Len(bars_map) >= 2
    /\ hist[bars_map[2].file].acked # <<>>
    /\ Added(bars_map[1].file) = <<>>

\* The bars of this run that the library delivered before the callbacks were attached.
EarlyBars ==
    {b \in UNION {Range(subs[h]) : h \in 1..Len(subs)} :
        pc # "run" \/ b.time <= calls.early}

\* C17: on_bar is attached to no handle before main has seen a non-empty mapping
\* after setup_streaming and is about to enter the event loop; until then no
\* invocation runs and no file object has a record added; and the record of a bar
\* that was delivered before that is in no file, persisted or buffered, ever.
C17_NoRecordBeforeStreaming ==
    /\ registered # {} => (pc = "run" /\ bars_map # <<>> /\ SetupDone)
    /\ pc # "run" =>
          /\ cb.pc = "idle"
          /\ \A i \in 1..Len(hist) : hist[i].written = <<>> /\ Added(i) = <<>>
    /\ \A b \in EarlyBars :
          /\ \A s \in Symbols : CsvRow(b) \notin Range(disk[s])
          /\ \A i \in 1..Len(files) : CsvRow(b) \notin Range(files[i].buf)

\* A subscription got a bar while a later symbol was being subscribed, and in the
\* streaming state a later bar of it, which is persisted.
C17_Witness ==
    /\ pc = "run"
    /\ \E e \in 1..Len(bars_map) :
          LET h == bars_map[e].bars
          IN /\ Len(subs[h]) >= 2
             /\ subs[h][1].time <= calls.early
             /\ CsvRow(subs[h][2]) \in Range(disk[bars_map[e].symbol])

\* C18: once a file object is closed it stays closed and nothing is added to it: its
\* buffer, the persisted rows of its file and its written bars stay as they are for
\* the rest of the run.  While a file object is closed the process is inside
\* shutdown, which ends it, so that no invocation of on_bar takes a step then; a
\* write or flush step of on_bar on a closed file would raise, be caught in on_bar
\* and change no file.
C18_NoAppendAfterClose ==
    /\ [][run' = run =>
            \A i \in 1..Len(files) :
                files[i].closed =>
                    /\ files'[i].closed /\ files'[i].buf = files[i].buf
                    /\ disk'[files[i].path] = disk[files[i].path]
                    /\ hist'[i] = hist[i]]_vars
    /\ []((Alive /\ \E i \in 1..Len(files) : files[i].closed) => sd # <<>>)
    /\ [][(HandlerStep /\ cb.pc \in {"write", "flush"} /\ files[cb.ctx].closed) =>
            (cb' = IdleCb /\ sd' = sd /\ files' = files /\ disk' = disk)]_vars

\* Shutdown closed the file of an invocation that was about to write and ended the
\* process: the row of that bar is not in the file.
C18_Witness ==
    /\ ShutdownDone /\ cb.pc = "write" /\ files[cb.ctx].closed
    /\ disk[files[cb.ctx].path] # <<>>
    /\ CsvRow(cb.bar) \notin Range(disk[files[cb.ctx].path])
====
